---- MODULE Spec2Model ----
(***************************************************************************)
(* Scene graph of sciwebvis (src/python/sciwebvis/figure.py): Figures own  *)
(* a data source dictionary, a material dictionary and a list of Axes;     *)
(* Axes own a list of render objects (Scatter, Surface).  Objects are      *)
(* modelled by their identity (an index into the pool of constructed       *)
(* objects); a numpy array also has a content, so that two distinct        *)
(* arrays can be value-equal.                                              *)
(***************************************************************************)
EXTENDS Integers, Sequences, FiniteSets, TLC

(***************************************************************************)
(* Bounds of the model.                                                    *)
(***************************************************************************)
NumFigures == 2
NumBuffers == 2
NumUUIDs == 3
MaxProposals == 2
MaxCalls == 4
NumThreads == 2

Figures == 1..NumFigures
Buffers == 1..NumBuffers
UUIDs == 1..NumUUIDs
Threads == 1..NumThreads

\* The material objects that can come to exist: a call constructs at most one.
MaterialObjs == 1..MaxCalls

\* Content of the numpy array object b: arrays 1 and 2 are distinct objects
\* with equal contents, array 3 differs from both, and so on.
Content(b) == (b + 1) \div 2

\* Values a caller can pass where a numpy array is expected: each ndarray
\* object, an instance of a subclass of ndarray, a string, an integer.
ArrayArgs == [type : {"ndarray"}, obj : Buffers]
    \cup [type : {"matrix", "str", "int"}, obj : {0}]

\* type(data) != np.ndarray : the exact type, subclasses do not pass.
IsNdarrayLoose(x) == TRUE
IsNdarray(x) == x.type = "ndarray"

\* Classes of the material module used by figure.py.
MaterialKinds == {"PointMaterial", "WireframeMaterial"}

\* isinstance(m, material.Material)
IsMaterial(x) == x.type \in MaterialKinds

\* An ID property that depends on the class of the material only.
MaterialIDPerClass(m) == 100 + (m % 2)

\* The ID property of a material object: unique per object.
MaterialID(m) == 100 + m

\* nj.toJson : the encoding of a buffer depends on its contents only.
toJson(b) == <<"json", Content(b)>>

\* Sizes a caller passes to addAxes; the default is (800, 800).
DefaultSize == <<800, 800>>
AxesSizes == {DefaultSize, <<400, 400>>}

NoArg == [type |-> "none", obj |-> 0]

\* No call of nj.toJson.
NoEncoding == [b \in Buffers |-> 0]

VARIABLES
    ID,             \* Figure.__ID
    dataDict,       \* Figure.__dataDict : ID -> ndarray object
    materialDict,   \* Figure.__materialDict : material ID -> material object
    axes,           \* Figure.__axes : list of Axes objects
    fig,            \* Axes.__fig, per constructed Axes
    properties,     \* Axes.__properties, per constructed Axes
    renderObjects,  \* Axes.__renderObjects, per constructed Axes
    objs,           \* constructed Scatter / Surface objects
    materials,      \* constructed material objects (their classes)
    hookCalls,      \* number of m.addToFigure(f) invocations
    boundFig,       \* the figure a material was last wired to (0: none)
    issued,         \* IDs that addData has returned, per figure and buffer
    ret,            \* outcome of the last call
    calls,          \* number of calls made so far
    threads,        \* threads inside Figure.addData: position and locals
    atomic          \* whether a call of addData excludes the others

vars == <<ID, dataDict, materialDict, axes, fig, properties, renderObjects,
          objs, materials, hookCalls, boundFig, issued, ret, calls, threads,
          atomic>>

\* The empty dict().
EmptyDict == [k \in {} |-> 0]

\* d[k] = v
DictSetDropped(d, k, v) == d
DictSet(d, k, v) == [j \in DOMAIN d \cup {k} |-> IF j = k THEN v ELSE d[j]]

\* A thread that is not inside a call.
Idle == [pc |-> "idle", fig |-> 0, data |-> 0, inserted |-> FALSE, id |-> 0]

\* The scene after the construction of the figures.
InitScene ==
    /\ ID = [f \in Figures |-> f]
    /\ dataDict = [f \in Figures |-> EmptyDict]
    /\ materialDict = [f \in Figures |-> EmptyDict]
    /\ axes = [f \in Figures |-> << >>]
    /\ fig = << >>
    /\ properties = << >>
    /\ renderObjects = << >>
    /\ objs = << >>
    /\ materials = << >>
    /\ hookCalls = [m \in MaterialObjs |-> [f \in Figures |-> 0]]
    /\ boundFig = [m \in MaterialObjs |-> 0]
    /\ issued = [f \in Figures |-> [b \in Buffers |-> {}]]
    /\ calls = 0
    /\ ret = [op |-> "init", fig |-> 0, ax |-> 0, arg |-> NoArg,
              kw |-> NoArg, err |-> "none", at |-> 0, retries |-> 0,
              encoded |-> NoEncoding, value |-> 0]
    /\ threads = [t \in Threads |-> Idle]

\* The calls are made one after the other.
Init == InitScene /\ atomic = TRUE

(***************************************************************************)
(* Figure.addData                                                          *)
(***************************************************************************)

\* The scan of dataDict for the array object b ("d[1] is data"): the keys
\* under which that very object is stored.
FindDataByValue(d, b) == {k \in DOMAIN d : Content(d[k]) = Content(b)}
FindData(d, b) == {k \in DOMAIN d : d[k] = b}

\* The successive results of str(uuid.uuid4()) in one call that needs a new
\* ID: every proposal but the last is an existing key, the last is not.
Proposals(keys) ==
    {ps \in UNION {[1..n -> UUIDs] : n \in 1..MaxProposals} :
        /\ ps[Len(ps)] \notin keys
        /\ \A i \in 1..(Len(ps) - 1) : ps[i] \in keys}

\* dataUUID after the loop "while has_key(dataUUID): dataUUID = uuid4()":
\* the first proposal that is not an existing key.
GenerateIDUnchecked(keys, ps) == ps[1]
GenerateID(keys, ps) ==
    ps[CHOOSE i \in 1..Len(ps) :
          /\ ps[i] \notin keys
          /\ \A j \in 1..(i - 1) : ps[j] \in keys]

\* The outcomes of addData(x) on the dictionary d: the error raised, the
\* line of the raise or return, the dictionary afterwards, the ID returned
\* and the number of times the ID was generated again.
AddDataOutcomes(d, x) ==
    IF ~IsNdarray(x)
    THEN {[err |-> "TypeError", at |-> 79, dict |-> d, id |-> 0,
           retries |-> 0]}
    ELSE IF FindData(d, x.obj) # {}
    THEN {[err |-> "none", at |-> 86, dict |-> d, id |-> k, retries |-> 0] :
             k \in FindData(d, x.obj)}
    ELSE {[err |-> "none", at |-> 100,
           dict |-> DictSet(d, GenerateID(DOMAIN d, ps), x.obj),
           id |-> GenerateID(DOMAIN d, ps),
           retries |-> Len(ps) - 1] : ps \in Proposals(DOMAIN d)}

\* The record of the IDs addData has returned for a buffer.
Issue(f, x, r) ==
    IF r.err = "none" THEN [issued EXCEPT ![f][x.obj] = @ \cup {r.id}]
    ELSE issued

DoAddData(op, f, a, x) ==
    \E r \in AddDataOutcomes(dataDict[f], x) :
        /\ dataDict' = [dataDict EXCEPT ![f] = r.dict]
        /\ issued' = Issue(f, x, r)
        /\ ret' = [op |-> op, fig |-> f, ax |-> a, arg |-> x, kw |-> NoArg,
                   err |-> r.err, at |-> r.at, retries |-> r.retries,
                   encoded |-> NoEncoding, value |-> r.id]
        /\ UNCHANGED <<ID, materialDict, axes, fig, properties,
                       renderObjects, objs, materials, hookCalls, boundFig>>

FigureAddData(f, x) == DoAddData("Figure.addData", f, 0, x)

(***************************************************************************)
(* Figure.addMaterial                                                      *)
(***************************************************************************)

\* Values a caller can pass where a material is expected: each constructed
\* material object, or a string.
MaterialArgs ==
    {[type |-> materials[m], obj |-> m] : m \in 1..Len(materials)}
    \cup {[type |-> "str", obj |-> 0]}

\* The scan of materialDict for the material object m ("mat[1] is m").
FindMaterialNever(d, m) == {}
FindMaterial(d, m) == {k \in DOMAIN d : d[k] = m}

\* The outcome of addMaterial(x) on the dictionary d: the error raised, the
\* line of the raise or return, the dictionary afterwards, whether
\* m.addToFigure was invoked, and the object returned.
AddMaterialOutcome(d, x) ==
    IF ~IsMaterial(x)
    THEN [err |-> "TypeError", at |-> 109, dict |-> d, hook |-> FALSE,
          value |-> 0]
    ELSE IF FindMaterial(d, x.obj) # {}
    THEN [err |-> "none", at |-> 115, dict |-> d, hook |-> FALSE,
          value |-> d[CHOOSE k \in FindMaterial(d, x.obj) : TRUE]]
    ELSE [err |-> "none", at |-> 125,
          dict |-> DictSet(d, MaterialID(x.obj), x.obj),
          hook |-> TRUE, value |-> x.obj]

\* m.addToFigure(f): wires the material to the figure.
AddToFigureCallsSkipped(mr, m, f) == hookCalls
AddToFigureCalls(mr, m, f) ==
    IF mr.hook THEN [hookCalls EXCEPT ![m][f] = @ + 1] ELSE hookCalls
AddToFigureBinding(mr, m, f) ==
    IF mr.hook THEN [boundFig EXCEPT ![m] = f] ELSE boundFig

DoAddMaterial(op, f, a, x) ==
    LET mr == AddMaterialOutcome(materialDict[f], x) IN
        /\ materialDict' = [materialDict EXCEPT ![f] = mr.dict]
        /\ hookCalls' = AddToFigureCalls(mr, x.obj, f)
        /\ boundFig' = AddToFigureBinding(mr, x.obj, f)
        /\ ret' = [op |-> op, fig |-> f, ax |-> a, arg |-> x, kw |-> NoArg,
                   err |-> mr.err, at |-> mr.at, retries |-> 0,
                   encoded |-> NoEncoding, value |-> mr.value]
        /\ UNCHANGED <<ID, dataDict, axes, fig, properties, renderObjects,
                       objs, materials, issued>>

FigureAddMaterial(f, x) == DoAddMaterial("Figure.addMaterial", f, 0, x)

\* A caller constructs a material object: material.PointMaterial() or
\* material.WireframeMaterial().
NewMaterial(kind) ==
    /\ materials' = Append(materials, kind)
    /\ ret' = [op |-> "Material", fig |-> 0, ax |-> 0, arg |-> NoArg,
               kw |-> NoArg, err |-> "none", at |-> 0, retries |-> 0,
               encoded |-> NoEncoding, value |-> Len(materials) + 1]
    /\ UNCHANGED <<ID, dataDict, materialDict, axes, fig, properties,
                   renderObjects, objs, hookCalls, boundFig, issued>>

(***************************************************************************)
(* Figure.addAxes, Axes.__init__                                           *)
(***************************************************************************)

\* self.__axes.append(ax)
AxesListInsert(l, ax) == <<ax>> \o l
AxesListAppend(l, ax) == Append(l, ax)

AddAxes(f, size) ==
    /\ fig' = Append(fig, f)
    /\ renderObjects' = Append(renderObjects, << >>)
    /\ properties' = Append(properties, [size |-> size])
    /\ axes' = [axes EXCEPT ![f] = AxesListAppend(@, Len(fig) + 1)]
    /\ ret' = [op |-> "Figure.addAxes", fig |-> f, ax |-> 0, arg |-> NoArg,
               kw |-> NoArg, err |-> "none", at |-> 134, retries |-> 0,
               encoded |-> NoEncoding, value |-> Len(fig) + 1]
    /\ UNCHANGED <<ID, dataDict, materialDict, objs, materials, hookCalls,
                   boundFig, issued>>

\* Axes(f, size = size), called by the user: an Axes that is in no axes
\* list.
NewAxes(f, size) ==
    /\ fig' = Append(fig, f)
    /\ renderObjects' = Append(renderObjects, << >>)
    /\ properties' = Append(properties, [size |-> size])
    /\ ret' = [op |-> "Axes", fig |-> f, ax |-> 0, arg |-> NoArg,
               kw |-> NoArg, err |-> "none", at |-> 205, retries |-> 0,
               encoded |-> NoEncoding, value |-> Len(fig) + 1]
    /\ UNCHANGED <<ID, dataDict, materialDict, axes, objs, materials,
                   hookCalls, boundFig, issued>>

(***************************************************************************)
(* Axes.addData, Axes.addMaterial, Axes.addRenderObject                    *)
(***************************************************************************)

\* self.__fig : the figure an Axes delegates to.
FigureOfFirst(a) == 1
FigureOf(a) == fig[a]

AxesAddData(a, x) == DoAddData("Axes.addData", FigureOf(a), a, x)

AxesAddMaterial(a, x) ==
    DoAddMaterial("Axes.addMaterial", FigureOf(a), a, x)

AddRenderObject(a, o) ==
    /\ renderObjects' = [renderObjects EXCEPT ![a] = Append(@, o)]
    /\ ret' = [op |-> "Axes.addRenderObject", fig |-> fig[a], ax |-> a,
               arg |-> [type |-> objs[o].kind, obj |-> o], kw |-> NoArg,
               err |-> "none", at |-> 262, retries |-> 0,
               encoded |-> NoEncoding, value |-> 0]
    /\ UNCHANGED <<ID, dataDict, materialDict, axes, fig, properties, objs,
                   materials, hookCalls, boundFig, issued>>

(***************************************************************************)
(* Scatter.__init__, Surface.__init__, Axes.scatter, Axes.surface          *)
(***************************************************************************)

RenderKinds == {"Scatter", "Surface"}

\* The default of kwargs.pop('material', ...): material.PointMaterial() for
\* a Scatter, material.WireframeMaterial() for a Surface.
DefaultMaterial(kind) ==
    IF kind = "Scatter" THEN "PointMaterial" ELSE "WireframeMaterial"

\* The material keyword argument: absent, or any value of MaterialArgs.
Absent == [type |-> "absent", obj |-> 0]
KwArgs == MaterialArgs \cup {Absent}

\* The material a constructor resolves: the caller's, or a newly
\* constructed default.  (The default a constructor builds and drops when
\* the caller passes a material is never referenced and is not modelled.)
ResolveMaterialShared(kind, kw) ==
    IF kw = Absent
    THEN [type |-> DefaultMaterial(kind),
          obj |-> IF \E m \in 1..Len(materials) :
                         materials[m] = DefaultMaterial(kind)
                  THEN CHOOSE m \in 1..Len(materials) :
                         materials[m] = DefaultMaterial(kind)
                  ELSE Len(materials) + 1]
    ELSE kw
ResolveMaterial(kind, kw) ==
    IF kw = Absent
    THEN [type |-> DefaultMaterial(kind), obj |-> Len(materials) + 1]
    ELSE kw

\* The last line of each operation that constructs a render object.
ReturnLine(op) ==
    IF op = "Axes.scatter" THEN 293
    ELSE IF op = "Axes.surface" THEN 302
    ELSE IF op = "Scatter" THEN 320
    ELSE 347

\* kind(a, vertex, material = kw): the constructor of a render object owned
\* by the Axes a.  With append it is called by Axes.scatter / Axes.surface,
\* which appends the new object to the renderObjects of a; without, by the
\* caller directly.
Construct(op, kind, a, x, kw, append) ==
    LET f == fig[a]
        m == ResolveMaterial(kind, kw)
    IN \E r \in AddDataOutcomes(dataDict[f], x) :
        LET mr == AddMaterialOutcome(materialDict[f], m)
            ok == r.err = "none" /\ mr.err = "none"
            o  == Len(objs) + 1
            err == IF r.err # "none" THEN r.err ELSE mr.err
        IN /\ dataDict' = [dataDict EXCEPT ![f] = r.dict]
           /\ issued' = Issue(f, x, r)
           /\ IF r.err = "none"
              THEN /\ materials' = IF kw = Absent
                                   THEN Append(materials, m.type)
                                   ELSE materials
                   /\ materialDict' = [materialDict EXCEPT ![f] = mr.dict]
                   /\ hookCalls' = AddToFigureCalls(mr, m.obj, f)
                   /\ boundFig' = AddToFigureBinding(mr, m.obj, f)
              ELSE UNCHANGED <<materials, materialDict, hookCalls, boundFig>>
           /\ objs' = IF ok
                      THEN Append(objs, [kind |-> kind, axes |-> a,
                                         dataID |-> r.id,
                                         material |-> m.obj])
                      ELSE objs
           /\ renderObjects' =
                  IF ok /\ append
                  THEN [renderObjects EXCEPT ![a] = Append(@, o)]
                  ELSE renderObjects
           /\ ret' = [op |-> op, fig |-> f, ax |-> a, arg |-> x, kw |-> kw,
                      err |-> err,
                      at |-> IF r.err # "none" THEN r.at
                             ELSE IF mr.err # "none" THEN mr.at
                             ELSE ReturnLine(op),
                      retries |-> r.retries,
                      encoded |-> NoEncoding, value |-> IF ok THEN o ELSE 0]
           /\ UNCHANGED <<ID, axes, fig, properties>>

\* Axes.scatter / Axes.surface raise before constructing anything.
VertexTypeError(op, a, x, kw) ==
    /\ ret' = [op |-> op, fig |-> fig[a], ax |-> a, arg |-> x, kw |-> kw,
               err |-> "TypeError",
               at |-> IF op = "Axes.scatter" THEN 290 ELSE 299,
               retries |-> 0, encoded |-> NoEncoding, value |-> 0]
    /\ UNCHANGED <<ID, dataDict, materialDict, axes, fig, properties,
                   renderObjects, objs, materials, hookCalls, boundFig,
                   issued>>

AxesScatter(a, x, kw) ==
    IF ~IsNdarray(x) THEN VertexTypeError("Axes.scatter", a, x, kw)
    ELSE Construct("Axes.scatter", "Scatter", a, x, kw, TRUE)

AxesSurface(a, x, kw) ==
    IF ~IsNdarray(x) THEN VertexTypeError("Axes.surface", a, x, kw)
    ELSE Construct("Axes.surface", "Surface", a, x, kw, TRUE)

\* Scatter(a, x, material = kw) and Surface(a, x, material = kw), called by
\* the user.
NewRenderObject(kind, a, x, kw) == Construct(kind, kind, a, x, kw, FALSE)

(***************************************************************************)
(* render                                                                  *)
(***************************************************************************)

\* The render() of a material object.
MaterialRender(m) == <<"material", materials[m], MaterialID(m)>>

\* Scatter.render / Surface.render: the values passed to the template.
ObjectRender(o) ==
    [template |-> IF objs[o].kind = "Scatter" THEN "js/scatter.js"
                  ELSE "js/surface.js",
     vertex |-> objs[o].dataID,
     material |-> MaterialID(objs[o].material)]

\* Axes.render: one fragment, of the template js/axes.js.
RenderedObjectsReversed(l) == [i \in 1..Len(l) |-> ObjectRender(l[Len(l) + 1 - i])]
RenderedObjects(l) == [i \in 1..Len(l) |-> ObjectRender(l[i])]

AxesRenderOut(a) ==
    [template |-> "js/axes.js",
     objects |-> RenderedObjects(renderObjects[a]),
     prop |-> properties[a]]

\* The fragments of the Axes of a figure, in the order of the loop over
\* self.__axes.
RenderedAxesReversed(l) == [i \in 1..Len(l) |-> AxesRenderOut(l[Len(l) + 1 - i])]
RenderedAxes(l) == [i \in 1..Len(l) |-> AxesRenderOut(l[i])]

\* The calls of nj.toJson in one Figure.render, per array object: one for
\* each item of the data dictionary.
EncoderCallsPerObject(f) ==
    [b \in Buffers |->
        Cardinality({o \in 1..Len(objs) :
            /\ fig[objs[o].axes] = f
            /\ objs[o].dataID \in DOMAIN dataDict[f]
            /\ dataDict[f][objs[o].dataID] = b})]
EncoderCalls(f) ==
    [b \in Buffers |->
        Cardinality({k \in DOMAIN dataDict[f] : dataDict[f][k] = b})]

\* The id that render and show pass to the templates: self.__ID.
RenderedIDAtConstruction(f) == f
RenderedID(f) == ID[f]

\* Figure.render: the list JScode before ''.join.
FigureRenderOut(f) ==
    << [template |-> "js/datasource.js",
        DATA |-> [k \in DOMAIN dataDict[f] |-> toJson(dataDict[f][k])]],
       [template |-> "js/materials.js",
        materials |-> [k \in DOMAIN materialDict[f] |->
                          MaterialRender(materialDict[f][k])]],
       [template |-> "js/figure.js", id |-> RenderedID(f)] >>
    \o RenderedAxes(axes[f])

\* What a render does to the scene: the render methods assign no
\* attribute and call no method that does.
RenderEffectPops ==
    /\ renderObjects' = [a \in DOMAIN renderObjects |-> << >>]
    /\ UNCHANGED <<ID, dataDict, materialDict, axes, fig, properties, objs,
                   materials, hookCalls, boundFig, issued>>
RenderEffect ==
    UNCHANGED <<ID, dataDict, materialDict, axes, fig, properties,
                renderObjects, objs, materials, hookCalls, boundFig, issued>>

FigureRender(f) ==
    /\ ret' = [op |-> "Figure.render", fig |-> f, ax |-> 0, arg |-> NoArg,
               kw |-> NoArg, err |-> "none", at |-> 173, retries |-> 0,
               encoded |-> EncoderCalls(f), value |-> FigureRenderOut(f)]
    /\ RenderEffect

\* Figure.show: the panel of html/figure.html and the output of one
\* render() are handed to IPython.display.
FigureShow(f) ==
    /\ ret' = [op |-> "Figure.show", fig |-> f, ax |-> 0, arg |-> NoArg,
               kw |-> NoArg, err |-> "none", at |-> 192, retries |-> 0,
               encoded |-> EncoderCalls(f),
               value |-> [html |-> [template |-> "html/figure.html",
                                    id |-> RenderedID(f)],
                          js |-> FigureRenderOut(f)]]
    /\ RenderEffect

AxesRender(a) ==
    /\ ret' = [op |-> "Axes.render", fig |-> fig[a], ax |-> a, arg |-> NoArg,
               kw |-> NoArg, err |-> "none", at |-> 284, retries |-> 0,
               encoded |-> NoEncoding, value |-> AxesRenderOut(a)]
    /\ RenderEffect

\* o.render() of a Scatter or Surface object the caller holds.
ObjectRenderCall(o) ==
    /\ ret' = [op |-> objs[o].kind \o ".render", fig |-> fig[objs[o].axes],
               ax |-> objs[o].axes,
               arg |-> [type |-> objs[o].kind, obj |-> o], kw |-> NoArg,
               err |-> "none",
               at |-> IF objs[o].kind = "Scatter" THEN 329 ELSE 355,
               retries |-> 0, encoded |-> NoEncoding,
               value |-> ObjectRender(o)]
    /\ RenderEffect

(***************************************************************************)
(* Specification                                                           *)
(***************************************************************************)

AllAxes == 1..Len(fig)
AllObjs == 1..Len(objs)

\* The caller makes at most MaxCalls calls.
Tick ==
    /\ calls < MaxCalls
    /\ calls' = calls + 1
    /\ UNCHANGED <<threads, atomic>>

Next ==
    \/ \E f \in Figures, x \in ArrayArgs :
           Tick /\ FigureAddData(f, x)
    \/ \E f \in Figures, x \in MaterialArgs :
           Tick /\ FigureAddMaterial(f, x)
    \/ \E kind \in MaterialKinds :
           Tick /\ NewMaterial(kind)
    \/ \E f \in Figures, size \in AxesSizes :
           Tick /\ AddAxes(f, size)
    \/ \E a \in AllAxes, x \in ArrayArgs :
           Tick /\ AxesAddData(a, x)
    \/ \E a \in AllAxes, x \in MaterialArgs :
           Tick /\ AxesAddMaterial(a, x)
    \/ \E a \in AllAxes, o \in AllObjs :
           Tick /\ AddRenderObject(a, o)
    \/ \E a \in AllAxes, x \in ArrayArgs, kw \in KwArgs :
           Tick /\ AxesScatter(a, x, kw)
    \/ \E a \in AllAxes, x \in ArrayArgs, kw \in KwArgs :
           Tick /\ AxesSurface(a, x, kw)
    \/ \E kind \in RenderKinds, a \in AllAxes, x \in ArrayArgs, kw \in KwArgs  :
           Tick /\ NewRenderObject(kind, a, x, kw)
    \/ \E f \in Figures :
           Tick /\ FigureRender(f)
    \/ \E a \in AllAxes :
           Tick /\ AxesRender(a)
    \/ \E f \in Figures :
           Tick /\ FigureShow(f)
    \/ \E o \in AllObjs :
           Tick /\ ObjectRenderCall(o)

Spec == Init /\ [][Next]_vars

(***************************************************************************)
(* Axes constructed by the caller                                          *)
(***************************************************************************)

\* The methods, and Axes(f) called directly.
NextAxes ==
    \/ Next
    \/ \E f \in Figures, size \in AxesSizes :
           Tick /\ NewAxes(f, size)

SpecAxes == Init /\ [][NextAxes]_vars

(***************************************************************************)
(* Figure.addData called from several threads                              *)
(***************************************************************************)

\* The thread t enters addData(b) on figure f and runs the type check and
\* the scan (lines 78-86): it returns the key found, or goes on to the
\* insertion.  When calls exclude each other, it waits while another thread
\* is between its scan and its insertion on f.
ThreadScan(t, f, b) ==
    /\ threads[t].pc = "idle"
    /\ atomic => \A u \in Threads \ {t} :
                     ~(threads[u].pc = "scanned" /\ threads[u].fig = f)
    /\ \/ /\ FindData(dataDict[f], b) = {}
          /\ threads' = [threads EXCEPT ![t] =
                 [pc |-> "scanned", fig |-> f, data |-> b,
                  inserted |-> FALSE, id |-> 0]]
          /\ issued' = issued
       \/ \E k \in FindData(dataDict[f], b) :
             /\ threads' = [threads EXCEPT ![t] =
                    [pc |-> "done", fig |-> f, data |-> b,
                     inserted |-> FALSE, id |-> k]]
             /\ issued' = [issued EXCEPT ![f][b] = @ \cup {k}]
    /\ UNCHANGED <<ID, dataDict, materialDict, axes, fig, properties,
                   renderObjects, objs, materials, hookCalls, boundFig, ret,
                   calls, atomic>>

\* The thread t generates the ID, inserts and returns (lines 91-100).
ThreadInsert(t) ==
    /\ threads[t].pc = "scanned"
    /\ LET f == threads[t].fig
           b == threads[t].data
       IN \E ps \in Proposals(DOMAIN dataDict[f]) :
              LET k == GenerateID(DOMAIN dataDict[f], ps) IN
                  /\ dataDict' = [dataDict EXCEPT ![f] = DictSet(@, k, b)]
                  /\ threads' = [threads EXCEPT ![t] =
                         [pc |-> "done", fig |-> f, data |-> b,
                          inserted |-> TRUE, id |-> k]]
                  /\ issued' = [issued EXCEPT ![f][b] = @ \cup {k}]
    /\ UNCHANGED <<ID, materialDict, axes, fig, properties, renderObjects,
                   objs, materials, hookCalls, boundFig, ret, calls, atomic>>

\* With or without mutual exclusion of the calls on a figure.
InitThreads == InitScene /\ atomic \in BOOLEAN

NextThreads ==
    \/ \E t \in Threads, f \in Figures, b \in Buffers : ThreadScan(t, f, b)
    \/ \E t \in Threads : ThreadInsert(t)

SpecThreads == InitThreads /\ [][NextThreads]_vars

(***************************************************************************)
(* The ID property of Figure                                               *)
(***************************************************************************)

\* figure.ID = v : the setter of the ID property.
SetID(f, v) ==
    /\ ID' = [ID EXCEPT ![f] = v]
    /\ ret' = [op |-> "Figure.ID.setter", fig |-> f, ax |-> 0,
               arg |-> [type |-> "str", obj |-> v], kw |-> NoArg,
               err |-> "none", at |-> 44, retries |-> 0,
               encoded |-> NoEncoding, value |-> 0]
    /\ UNCHANGED <<dataDict, materialDict, axes, fig, properties,
                   renderObjects, objs, materials, hookCalls, boundFig,
                   issued>>

\* The methods, and assignments to the ID property.
NextID ==
    \/ Next
    \/ \E f \in Figures, v \in UUIDs :
           Tick /\ SetID(f, v)

SpecID == Init /\ [][NextID]_vars

(***************************************************************************)
(* The data property of Figure and Axes                                    *)
(***************************************************************************)

\* figure.data = value, axes.data = value : the setters raise.
SetData(op, f, a, line) ==
    /\ ret' = [op |-> op, fig |-> f, ax |-> a, arg |-> NoArg, kw |-> NoArg,
               err |-> "Exception", at |-> line, retries |-> 0,
               encoded |-> NoEncoding, value |-> 0]
    /\ UNCHANGED <<ID, dataDict, materialDict, axes, fig, properties,
                   renderObjects, objs, materials, hookCalls, boundFig,
                   issued>>

FigureSetData(f) == SetData("Figure.data.setter", f, 0, 55)

AxesSetData(a) == SetData("Axes.data.setter", fig[a], a, 221)

\* The getters return the dictionary object itself (lines 51, 217), so the
\* caller can write to it: figure.data[k] = b ...
DataSetItem(op, f, a, k, b) ==
    /\ dataDict' = [dataDict EXCEPT ![f] = DictSet(@, k, b)]
    /\ ret' = [op |-> op, fig |-> f, ax |-> a,
               arg |-> [type |-> "ndarray", obj |-> b], kw |-> NoArg,
               err |-> "none", at |-> 51, retries |-> 0,
               encoded |-> NoEncoding, value |-> k]
    /\ UNCHANGED <<ID, materialDict, axes, fig, properties, renderObjects,
                   objs, materials, hookCalls, boundFig, issued>>

\* ... and del figure.data[k].
DataDelItem(op, f, a, k) ==
    /\ k \in DOMAIN dataDict[f]
    /\ dataDict' = [dataDict EXCEPT ![f] =
                       [j \in DOMAIN @ \ {k} |-> @[j]]]
    /\ ret' = [op |-> op, fig |-> f, ax |-> a, arg |-> NoArg, kw |-> NoArg,
               err |-> "none", at |-> 51, retries |-> 0,
               encoded |-> NoEncoding, value |-> k]
    /\ UNCHANGED <<ID, materialDict, axes, fig, properties, renderObjects,
                   objs, materials, hookCalls, boundFig, issued>>

\* The methods, and the uses of the data property.
NextData ==
    \/ Next
    \/ \E f \in Figures :
           Tick /\ FigureSetData(f)
    \/ \E a \in AllAxes :
           Tick /\ AxesSetData(a)
    \/ \E f \in Figures, k \in UUIDs, b \in Buffers :
           Tick /\ DataSetItem("Figure.data.setitem", f, 0, k, b)
    \/ \E a \in AllAxes, k \in UUIDs, b \in Buffers :
           Tick /\ DataSetItem("Axes.data.setitem", fig[a], a, k, b)
    \/ \E f \in Figures, k \in UUIDs :
           Tick /\ DataDelItem("Figure.data.delitem", f, 0, k)
    \/ \E a \in AllAxes, k \in UUIDs :
           Tick /\ DataDelItem("Axes.data.delitem", fig[a], a, k)

SpecData == Init /\ [][NextData]_vars

(***************************************************************************)
(* Properties                                                              *)
(***************************************************************************)

\* The keys of figure f's data dictionary under which the array b is stored.
DataKeysOf(f, b) == {k \in DOMAIN dataDict[f] : dataDict[f][k] = b}

\* The material m is stored in figure f's material dictionary.
Registered(f, m) == \E k \in DOMAIN materialDict[f] : materialDict[f][k] = m

AddDataOps == {"Figure.addData", "Axes.addData"}
AddMaterialOps == {"Figure.addMaterial", "Axes.addMaterial"}
ScatterOps == {"Axes.scatter", "Axes.surface"}
ConstructOps == ScatterOps \cup RenderKinds

\* C1: in every figure, all the IDs addData has returned for one array
\* object are the same ID and the object is stored under that ID only (a
\* repeated call adds no entry); two distinct array objects with equal
\* contents never got the same ID, and each has its own entry.
C1_DedupByIdentity ==
    \A f \in Figures, b \in Buffers :
        /\ Cardinality(issued[f][b]) <= 1
        /\ DataKeysOf(f, b) = issued[f][b]
        /\ \A b2 \in Buffers \ {b} :
               Content(b2) = Content(b) => issued[f][b] \cap issued[f][b2] = {}

\* A repeated addData(b) has just returned at the scan, and a distinct array
\* with the same contents is registered in the same figure.
C1_Witness ==
    /\ ret.op = "Figure.addData" /\ ret.err = "none" /\ ret.at = 86
    /\ issued[ret.fig][ret.arg.obj] = {ret.value}
    /\ \E b2 \in Buffers \ {ret.arg.obj} :
           /\ Content(b2) = Content(ret.arg.obj)
           /\ issued[ret.fig][b2] # {}

\* C2: a material object registered in a figure had its addToFigure hook
\* invoked for that figure exactly once, an unregistered one never, and
\* every successful addMaterial call returns the very object it was given.
C2_MaterialDedup ==
    /\ \A f \in Figures, m \in MaterialObjs :
           hookCalls[m][f] = IF Registered(f, m) THEN 1 ELSE 0
    /\ ret.op \in AddMaterialOps /\ ret.err = "none" => ret.value = ret.arg.obj

\* addMaterial(m) has just returned at the scan: m was registered before.
C2_Witness ==
    /\ ret.op \in AddMaterialOps /\ ret.err = "none" /\ ret.at = 115
    /\ ret.value = ret.arg.obj
    /\ hookCalls[ret.arg.obj][ret.fig] = 1

\* C3: the IDs addData returned for distinct array objects are distinct,
\* and every ID it returned still maps to the object it was returned for
\* (no entry is overwritten), also after a call in which a generated ID
\* was an existing key.
C3_UniqueIDs ==
    \A f \in Figures, b \in Buffers :
        /\ \A b2 \in Buffers \ {b} : issued[f][b] \cap issued[f][b2] = {}
        /\ \A k \in issued[f][b] :
               k \in DOMAIN dataDict[f] /\ dataDict[f][k] = b
        /\ ret.op \in AddDataOps \cup ConstructOps /\ ret.retries > 0 =>
               Cardinality(DOMAIN dataDict[ret.fig]) >= 2

\* An addData call has just generated an existing key, generated again,
\* and two arrays are registered.
C3_Witness ==
    /\ ret.op \in AddDataOps /\ ret.err = "none" /\ ret.retries > 0
    /\ \E b \in Buffers \ {ret.arg.obj} : issued[ret.fig][b] # {}
    /\ issued[ret.fig][ret.arg.obj] = {ret.value}

\* C4: a call that raises leaves the data dictionaries, the material
\* dictionaries, the axes lists and the renderObjects lists as they were.
C4_FailedCallNoEffect ==
    [][ret'.err # "none" =>
           UNCHANGED <<dataDict, materialDict, axes, renderObjects>>]_vars

\* C5: every data ID and material ID of a render object in the
\* renderObjects of an Axes in a figure's axes list is a key of that
\* figure's dictionaries.
C5_ReferencesResolve ==
    \A f \in Figures : \A i \in 1..Len(axes[f]) :
        \A j \in 1..Len(renderObjects[axes[f][i]]) :
            LET o == renderObjects[axes[f][i]][j] IN
                /\ objs[o].dataID \in DOMAIN dataDict[f]
                /\ MaterialID(objs[o].material) \in DOMAIN materialDict[f]

\* C6: what the render() of a constructed Scatter / Surface passes to its
\* template as vertex and material are keys of the dictionaries of the
\* figure of its owning Axes, and name the array and the material it was
\* constructed with.
C6_RenderRefsValid ==
    \A o \in 1..Len(objs) :
        LET f == fig[objs[o].axes] IN
            /\ ObjectRender(o).vertex \in DOMAIN dataDict[f]
            /\ ObjectRender(o).material \in DOMAIN materialDict[f]
            /\ materialDict[f][ObjectRender(o).material] = objs[o].material

\* A figure with a constructed render object has just been rendered.
C6_Witness ==
    /\ ret.op = "Figure.render"
    /\ \E o \in 1..Len(objs) : fig[objs[o].axes] = ret.fig
    /\ \E i \in 4..Len(ret.value) : Len(ret.value[i].objects) > 0

\* C7: no step removes a key of a data dictionary or changes the array a
\* key maps to, and no step makes a data or material dictionary smaller.
C7_RegistriesGrow ==
    [][\A f \in Figures :
           /\ DOMAIN dataDict[f] \subseteq DOMAIN dataDict'[f]
           /\ \A k \in DOMAIN dataDict[f] : dataDict'[f][k] = dataDict[f][k]
           /\ Cardinality(DOMAIN dataDict'[f]) >= Cardinality(DOMAIN dataDict[f])
           /\ Cardinality(DOMAIN materialDict'[f])
                  >= Cardinality(DOMAIN materialDict[f])]_vars

\* A second array has been added to a figure after an ID collision, and a
\* material is registered.
C7_Witness ==
    /\ ret.op \in AddDataOps \cup ConstructOps /\ ret.retries > 0
    /\ Cardinality(DOMAIN dataDict[ret.fig]) >= 2
    /\ \E f \in Figures : DOMAIN materialDict[f] # {}

\* C8: the output of Figure.render is, in this order: the data sources
\* fragment with one entry per key of the data dictionary, the materials
\* fragment with one entry per key of the material dictionary, the figure
\* fragment with the figure's ID, then for i = 1, 2, ... the fragment of the
\* i-th Axes of the axes list.
C8_FigureRenderOrder ==
    ret.op = "Figure.render" =>
        LET out == ret.value
            f == ret.fig
        IN /\ Len(out) = 3 + Len(axes[f])
           /\ out[1].template = "js/datasource.js"
           /\ DOMAIN out[1].DATA = DOMAIN dataDict[f]
           /\ out[2].template = "js/materials.js"
           /\ DOMAIN out[2].materials = DOMAIN materialDict[f]
           /\ out[3].template = "js/figure.js"
           /\ out[3].id = ID[f]
           /\ \A i \in 1..Len(axes[f]) :
                  LET a == axes[f][i] IN
                      /\ out[3 + i].template = "js/axes.js"
                      /\ out[3 + i].prop = properties[a]
                      /\ Len(out[3 + i].objects) = Len(renderObjects[a])
                      /\ \A j \in 1..Len(renderObjects[a]) :
                             out[3 + i].objects[j].vertex
                                 = objs[renderObjects[a][j]].dataID

\* A figure with two Axes whose fragments differ, and with registered data,
\* has just been rendered.
C8_Witness ==
    /\ ret.op = "Figure.render"
    /\ Len(axes[ret.fig]) = 2
    /\ ret.value[4] # ret.value[5]
    /\ DOMAIN dataDict[ret.fig] # {}

\* The descriptions in objs are those of the render objects in l, index by
\* index.
Describes(descs, l) ==
    /\ Len(descs) = Len(l)
    /\ \A j \in 1..Len(l) :
           /\ descs[j].template = (IF objs[l[j]].kind = "Scatter"
                                   THEN "js/scatter.js" ELSE "js/surface.js")
           /\ descs[j].vertex = objs[l[j]].dataID
           /\ descs[j].material = MaterialID(objs[l[j]].material)

\* C9: a step leaves the renderObjects of an Axes alone or appends one
\* object at its end, and the objects Axes.render passes to its template
\* are the descriptions of renderObjects, index by index.
C9_AxesRenderOrder ==
    [][/\ \A a \in 1..Len(renderObjects) :
              \/ renderObjects'[a] = renderObjects[a]
              \/ \E o \in 1..Len(objs') :
                     renderObjects'[a] = Append(renderObjects[a], o)
       /\ ret'.op = "Axes.render" =>
              Describes(ret'.value.objects, renderObjects'[ret'.ax])]_vars

\* An Axes with two render objects of different descriptions has just been
\* rendered.
C9_Witness ==
    /\ ret.op = "Axes.render"
    /\ Len(renderObjects[ret.ax]) = 2
    /\ ret.value.objects[1] # ret.value.objects[2]

\* Types of arguments that are no numeric array and no material.
NonArrayTypes == {"str", "int"}

\* The call r passes a non-array as data or vertex, or a non-material to
\* addMaterial.
BadArgument(r) ==
    \/ r.op \in AddDataOps \cup ScatterOps /\ r.arg.type \in NonArrayTypes
    \/ r.op \in AddMaterialOps /\ r.arg.type = "str"

\* C10: addData with a non-array, addMaterial with a non-material and
\* scatter / surface with a non-array vertex raise TypeError at their type
\* check, and nothing has been looked up, generated, invoked or inserted.
C10_TypeErrorFirst ==
    [][BadArgument(ret') =>
           /\ ret'.err = "TypeError"
           /\ ret'.at \in {79, 109, 290, 299}
           /\ ret'.retries = 0
           /\ UNCHANGED <<dataDict, materialDict, hookCalls, boundFig, issued,
                          materials, objs, renderObjects, axes>>]_vars

\* scatter with a non-array vertex has just raised in a figure that has
\* registered data.
C10_Witness ==
    /\ ret.op \in ScatterOps /\ ret.arg.type \in NonArrayTypes
    /\ ret.err = "TypeError"
    /\ DOMAIN dataDict[ret.fig] # {}

\* The call r passes the material object m to figure f.
PassesMaterial(r, f, m) ==
    /\ r.fig = f
    /\ \/ r.op \in AddMaterialOps /\ r.arg.type \in MaterialKinds /\ r.arg.obj = m
       \/ r.op \in ConstructOps /\ r.arg.type = "ndarray"
            /\ r.kw.type \in MaterialKinds /\ r.kw.obj = m

\* The material m is registered in a figure other than f and not in f.
InOtherFigureOnly(f, m) ==
    /\ ~Registered(f, m)
    /\ \E g \in Figures \ {f} : Registered(g, m)

\* C11 as stated: adding a material that is registered in another figure
\* raises no error and invokes its addToFigure hook no more.
C11_HookNotInvokedAgain ==
    [][\A f \in Figures, m \in MaterialObjs :
           InOtherFigureOnly(f, m) /\ PassesMaterial(ret', f, m) =>
               ret'.err = "none" /\ hookCalls' = hookCalls]_vars

\* C11 amended: adding a material that is registered in another figure
\* raises no error, invokes its addToFigure hook once more, for the new
\* figure, and stores it in the new figure's dictionary too; the other
\* figures keep it and their hook counts.
C11_HookInvokedPerFigure ==
    [][\A f \in Figures, m \in MaterialObjs :
           InOtherFigureOnly(f, m) /\ PassesMaterial(ret', f, m) =>
               /\ ret'.err = "none"
               /\ hookCalls'[m][f] = 1
               /\ hookCalls[m][f] = 0
               /\ Registered(f, m)'
               /\ \A g \in Figures \ {f} :
                      /\ hookCalls'[m][g] = hookCalls[m][g]
                      /\ materialDict'[g] = materialDict[g]]_vars

\* A material registered in one figure has just been added to another.
C11_Witness ==
    /\ ret.op \in AddMaterialOps /\ ret.err = "none" /\ ret.at = 125
    /\ \E g \in Figures \ {ret.fig} : Registered(g, ret.arg.obj)
    /\ Registered(ret.fig, ret.arg.obj)
    /\ hookCalls[ret.arg.obj] = [f \in Figures |-> 1]

\* C12 as stated: the ID of a figure never changes.
C12_IDNeverChanges == [][ID' = ID]_vars

\* C12 amended: only an assignment to the ID property changes the ID of a
\* figure, and it changes that figure's ID only; render and show pass the
\* current ID to the templates js/figure.js and html/figure.html.
C12_IDChangedBySetterOnly ==
    [][/\ \A f \in Figures :
              ID'[f] # ID[f] => ret'.op = "Figure.ID.setter" /\ ret'.fig = f
       /\ ret'.op = "Figure.render" => ret'.value[3].id = ID'[ret'.fig]
       /\ ret'.op = "Figure.show" =>
              /\ ret'.value.html.id = ID'[ret'.fig]
              /\ ret'.value.js[3].id = ID'[ret'.fig]]_vars

\* A figure whose ID has been assigned a new value has just been rendered.
C12_Witness ==
    /\ ret.op \in {"Figure.render", "Figure.show"}
    /\ ID[ret.fig] # ret.fig
    /\ \E f \in Figures : DOMAIN dataDict[f] # {}

DataPropertyOps ==
    {"Figure.data.setter", "Axes.data.setter", "Figure.data.setitem",
     "Axes.data.setitem", "Figure.data.delitem", "Axes.data.delitem"}

\* C13: an assignment to the data property of a Figure or an Axes raises,
\* and no use of the data property changes a data dictionary.
C13_DataReadOnly ==
    [][ret'.op \in DataPropertyOps =>
           /\ ret'.op \in {"Figure.data.setter", "Axes.data.setter"} =>
                  ret'.err = "Exception"
           /\ dataDict' = dataDict]_vars

\* The dictionary e is the dictionary d with one more item, of value v and
\* of a key that d does not have.
OneMoreItem(d, e, v) ==
    \E k \in DOMAIN e \ DOMAIN d :
        /\ DOMAIN e = DOMAIN d \cup {k}
        /\ e[k] = v
        /\ \A j \in DOMAIN d : e[j] = d[j]

\* C14: a successful scatter / surface without material on the Axes a of
\* figure f leaves the data dictionary of f alone when the vertex is stored
\* in it and adds one item for the vertex otherwise, adds one item to the
\* material dictionary of f, for a material object of the default class
\* that did not exist before, appends one new render object to the
\* renderObjects of a, and leaves the other Axes and figures alone.
C14_ScatterEffect ==
    [][ret'.op \in ScatterOps /\ ret'.kw = Absent /\ ret'.err = "none" =>
           LET f == ret'.fig
               a == ret'.ax
               b == ret'.arg.obj
               o == ret'.value
               m == Len(materials) + 1
           IN /\ IF DataKeysOf(f, b) # {}
                 THEN dataDict'[f] = dataDict[f]
                 ELSE OneMoreItem(dataDict[f], dataDict'[f], b)
              /\ Len(materials') = m
              /\ materials'[m] = (IF ret'.op = "Axes.scatter"
                                  THEN "PointMaterial"
                                  ELSE "WireframeMaterial")
              /\ OneMoreItem(materialDict[f], materialDict'[f], m)
              /\ o = Len(objs) + 1 /\ Len(objs') = o
              /\ objs'[o].axes = a /\ objs'[o].material = m
              /\ dataDict'[f][objs'[o].dataID] = b
              /\ renderObjects'[a] = Append(renderObjects[a], o)
              /\ \A a2 \in 1..Len(renderObjects) \ {a} :
                     renderObjects'[a2] = renderObjects[a2]
              /\ \A g \in Figures \ {f} :
                     /\ dataDict'[g] = dataDict[g]
                     /\ materialDict'[g] = materialDict[g]]_vars

\* A second scatter / surface of the same vertex without material has just
\* returned: one data item, two default materials, two render objects.
C14_Witness ==
    /\ ret.op \in ScatterOps /\ ret.kw = Absent /\ ret.err = "none"
    /\ Len(renderObjects[ret.ax]) = 2
    /\ \A j \in 1..2 :
           /\ objs[renderObjects[ret.ax][j]].axes = ret.ax
           /\ objs[renderObjects[ret.ax][j]].dataID
                  \in DataKeysOf(ret.fig, ret.arg.obj)
    /\ Cardinality(DOMAIN dataDict[ret.fig]) = 1
    /\ Cardinality(DOMAIN materialDict[ret.fig]) = 2

\* C15: Axes.addData and Axes.addMaterial on the Axes a return what
\* Figure.addData and Figure.addMaterial on the figure of a return, change
\* the dictionaries of that figure as they do, and change nothing else: no
\* field of an Axes and no other figure.  An array is afterwards stored in
\* the figure of a under the returned ID and under no other.
C15_AxesDelegates ==
    [][ret'.op \in {"Axes.addData", "Axes.addMaterial"} =>
           LET a == ret'.ax
               f == fig[a]
               x == ret'.arg
           IN /\ ret'.fig = f
              /\ UNCHANGED <<fig, properties, renderObjects, axes, objs, ID>>
              /\ \A g \in Figures \ {f} :
                     /\ dataDict'[g] = dataDict[g]
                     /\ materialDict'[g] = materialDict[g]
              /\ ret'.op = "Axes.addData" =>
                     /\ \E r \in AddDataOutcomes(dataDict[f], x) :
                            /\ ret'.err = r.err /\ ret'.value = r.id
                            /\ dataDict'[f] = r.dict
                     /\ materialDict' = materialDict
                     /\ ret'.err = "none" =>
                            /\ dataDict'[f][ret'.value] = x.obj
                            /\ issued'[f][x.obj] = {ret'.value}
                            /\ Cardinality({k \in DOMAIN dataDict'[f] :
                                   dataDict'[f][k] = x.obj}) = 1
              /\ ret'.op = "Axes.addMaterial" =>
                     /\ ret'.err = AddMaterialOutcome(materialDict[f], x).err
                     /\ ret'.value = AddMaterialOutcome(materialDict[f], x).value
                     /\ materialDict'[f]
                            = AddMaterialOutcome(materialDict[f], x).dict
                     /\ dataDict' = dataDict
                     /\ ret'.err = "none" =>
                            /\ ret'.value = x.obj
                            /\ \E k \in DOMAIN materialDict'[f] :
                                   materialDict'[f][k] = x.obj]_vars

\* An array already registered in a figure with two Axes has just been
\* added again through one of them, in the second figure.
C15_Witness ==
    /\ ret.op = "Axes.addData" /\ ret.err = "none" /\ ret.at = 86
    /\ ret.fig = 2
    /\ Len(axes[ret.fig]) = 2
    /\ DataKeysOf(ret.fig, ret.arg.obj) = {ret.value}

\* Every Axes in the axes list l[f] of a figure f occurs there once, has f
\* as its figure, and is in the list of no other figure.
AxesOwned(l, fg) ==
    \A f \in Figures : \A i \in 1..Len(l[f]) :
        /\ l[f][i] \in 1..Len(fg)
        /\ fg[l[f][i]] = f
        /\ \A j \in 1..Len(l[f]) : l[f][j] = l[f][i] => j = i
        /\ \A g \in Figures \ {f} : \A j \in 1..Len(l[g]) : l[g][j] # l[f][i]

\* C16: Figure.addAxes on f returns an Axes that did not exist before, whose
\* figure is f, and appends it at the end of the axes list of f, leaving
\* the earlier entries, the other lists and the figure of every other Axes
\* as they were; after every step each Axes in an axes list is there once,
\* refers back to the figure of the list and is in no other list.
C16_AddAxes ==
    [][/\ ret'.op = "Figure.addAxes" =>
              LET f == ret'.fig
                  ax == ret'.value
              IN /\ ax = Len(fig) + 1 /\ Len(fig') = ax
                 /\ fig'[ax] = f
                 /\ renderObjects'[ax] = << >>
                 /\ axes'[f] = Append(axes[f], ax)
                 /\ \A g \in Figures \ {f} : axes'[g] = axes[g]
                 /\ \A a \in 1..Len(fig) : fig'[a] = fig[a]
       /\ AxesOwned(axes', fig')]_vars

\* addAxes has just added a second Axes to a figure, the other figure has
\* an Axes too.
C16_Witness ==
    /\ ret.op = "Figure.addAxes"
    /\ Len(axes[ret.fig]) = 2
    /\ axes[ret.fig][2] = ret.value
    /\ \E g \in Figures \ {ret.fig} : Len(axes[g]) = 1

RenderOps == {"Figure.render", "Figure.show"}

\* The render objects constructed on an Axes of figure f whose vertex is
\* the array b.
ObjectsOf(f, b) ==
    {o \in 1..Len(objs) :
        fig[objs[o].axes] = f /\ objs[o].dataID \in DataKeysOf(f, b)}

\* C17: a call other than Figure.render (and show, which calls it once)
\* makes no call of nj.toJson; Figure.render makes one call for each item
\* of the data dictionary, that is one for each registered array, however
\* many render objects have it as vertex.
C17_EncodedOncePerRender ==
    /\ ret.op \notin RenderOps => ret.encoded = NoEncoding
    /\ ret.op \in RenderOps =>
           \A b \in Buffers :
               ret.encoded[b] = IF DataKeysOf(ret.fig, b) # {} THEN 1 ELSE 0

\* A figure in which two render objects share one array has just been
\* rendered.
C17_Witness ==
    /\ ret.op = "Figure.render"
    /\ \E b \in Buffers :
           /\ Cardinality(ObjectsOf(ret.fig, b)) = 2
           /\ ret.encoded[b] = 1

AllRenderOps ==
    {"Figure.render", "Figure.show", "Axes.render", "Scatter.render",
     "Surface.render"}

\* C18: a render (Figure.render, Figure.show, Axes.render, Scatter.render,
\* Surface.render) changes no dictionary, no axes list, no renderObjects
\* list, no figure ID, no object, and invokes no addToFigure hook.
C18_RenderDoesNotMutate ==
    [][ret'.op \in AllRenderOps =>
           UNCHANGED <<dataDict, materialDict, axes, renderObjects, ID, fig,
                       properties, objs, materials, hookCalls, boundFig>>]_vars

\* A figure with registered data, a registered material and a render
\* object in an Axes has just been rendered.
C18_Witness ==
    /\ ret.op = "Figure.render"
    /\ DOMAIN dataDict[ret.fig] # {}
    /\ DOMAIN materialDict[ret.fig] # {}
    /\ \E i \in 1..Len(axes[ret.fig]) :
           Len(renderObjects[axes[ret.fig][i]]) > 0

\* The threads t and u have both inserted the array b into figure f.
BothInserted(t, u, f, b) ==
    /\ t # u
    /\ \A v \in {t, u} :
           /\ threads[v].pc = "done" /\ threads[v].inserted
           /\ threads[v].fig = f /\ threads[v].data = b

\* C19: when two threads have both gone from the scan to the insertion for
\* the same array and figure, the array is stored under the two distinct
\* IDs they return; when the calls exclude each other, an array is stored
\* under at most one ID and no two threads insert the same array.
C19_ScanThenInsertNotAtomic ==
    /\ \A t \in Threads, u \in Threads, f \in Figures, b \in Buffers :
           BothInserted(t, u, f, b) =>
               /\ ~atomic
               /\ threads[t].id # threads[u].id
               /\ {threads[t].id, threads[u].id} \subseteq DataKeysOf(f, b)
    /\ atomic => \A f \in Figures, b \in Buffers :
                     Cardinality(DataKeysOf(f, b)) <= 1

\* Without mutual exclusion, two threads have registered the same array in
\* the same figure under two IDs.
C19_Witness ==
    /\ ~atomic
    /\ \E f \in Figures, b \in Buffers :
           /\ BothInserted(1, 2, f, b)
           /\ Cardinality(DataKeysOf(f, b)) = 2
           /\ Cardinality(issued[f][b]) = 2

\* The material objects on which the figure f has invoked the binding
\* hook: the distinct objects added to f.
Hooked(f) == {m \in MaterialObjs : hookCalls[m][f] > 0}

\* C20: in every figure, the material registry has as many entries as
\* distinct material objects have been added, and every material on which
\* the figure invoked the binding hook is stored under its own ID.
C20_MaterialRegistryComplete ==
    \A f \in Figures :
        /\ Cardinality(DOMAIN materialDict[f]) = Cardinality(Hooked(f))
        /\ \A m \in Hooked(f) :
               /\ MaterialID(m) \in DOMAIN materialDict[f]
               /\ materialDict[f][MaterialID(m)] = m

\* A second distinct material has just been added to a figure.
C20_Witness ==
    /\ ret.op \in AddMaterialOps /\ ret.err = "none"
    /\ Cardinality(Hooked(ret.fig)) = 2
    /\ Cardinality(DOMAIN materialDict[ret.fig]) = 2
    /\ hookCalls[ret.arg.obj][ret.fig] = 1

====
